---- MODULE Spec2Model ----
(***************************************************************************)
(* Model of src/lib.rs of ackermann.rs: the three functions pow, hyper_op  *)
(* and A, executed statement by statement on an explicit call stack.       *)
(* BigUint is modelled by the naturals; a BigUint subtraction whose        *)
(* result would be negative panics (num_bigint), which ends the run.       *)
(***************************************************************************)
EXTENDS Naturals, Sequences, FiniteSets

VARIABLES
    stack,    \* the call stack, innermost activation last; one record per activation
    ret,      \* the value returned by the activation that returned last
    status,   \* "running", "done" (the top-level call returned ret) or "panic"
    panicAt,  \* the function whose subtraction panicked, "" when none did
    call,     \* the top-level call under evaluation: [fn, args]
    hist      \* the calls the caller completed before `call`: <<[call, ret], ...>>

vars == <<stack, ret, status, panicAt, call, hist>>

----------------------------------------------------------------------------
\* Bounds of the model: the inputs a caller passes.

\* largest order (hyper_op's n, A's m) a caller passes
MaxOrder == 5
\* largest base / exponent (pow, hyper_op) and second Ackermann argument a caller passes
MaxArg == 4

----------------------------------------------------------------------------
\* The arithmetic of each statement.

\* lib.rs:62  e.bit(0)
Bit0(e) == e % 2 = 1

\* lib.rs:65  e >>= 1
Shr1(e) == e \div 2

\* lib.rs:47  if b.is_zero() || e.is_one() { return b; }
PowReturnsBase(b, e) == b = 0 \/ e = 1

\* lib.rs:53  if b.is_one() || e.is_zero() { return n1; }
PowReturnsOne(b, e) == b = 1 \/ e = 0

\* lib.rs:68  e > n1, the condition of the do-while
PowLoopCond(e) == e > 1

\* lib.rs:70  the value pow returns after its loop: n1, not out
PowResult(out) == 1

\* a variant of HyperOrder0 that reads the base
HyperOrder0_UsesBase(base, exp) == base + 1

\* lib.rs:84  return exp + n1;
HyperOrder0(base, exp) == exp + 1

\* lib.rs:87  return base + exp;
HyperOrder1(base, exp) == base + exp

\* lib.rs:91  return base * exp;
HyperOrder2(base, exp) == base * exp

\* a variant of HyperExpIsZero: the early return is never taken
HyperExpIsZero_Never(exp) == FALSE

\* lib.rs:97  if exp.is_zero() { return n1; }
HyperExpIsZero(exp) == exp = 0

\* a variant of HyperOrderBelow: the order is not reduced
HyperOrderBelow_Same(n) == n

\* lib.rs:101  let n = n - &n1;
HyperOrderBelow(n) == n - 1

\* a variant of HyperInitOut: the accumulator starts at one
HyperInitOut_One(base) == 1

\* lib.rs:104  let mut out = base.clone();
HyperInitOut(base) == base

\* lib.rs:107  !exp.is_zero(), the condition of the do-while, on the decremented exp
HyperLoopCond(exp_) == exp_ # 0

\* a variant of AExp: the shift is off by one
AExp_OffByOne(n) == n + 2

\* lib.rs:132  n + &n3, the exponent A passes to hyper_op
AExp(n) == n + 3

\* lib.rs:132  the base A passes to hyper_op
ABase == 2

\* lib.rs:131  n3
AShift == 3

----------------------------------------------------------------------------
\* Activation records.

\* lib.rs:43  fn pow(base, exp); b, e and out are its locals
PowFrame(base, exp) ==
    [fn |-> "pow", pc |-> "entry", base |-> base, exp |-> exp,
     b |-> base, e |-> exp, out |-> 0]

\* lib.rs:80  fn hyper_op(n, base, exp); n_ and exp_ are the shadowing locals of
\* lines 101-102, out the accumulator, iters counts the runs of the loop body
HyperFrame(n, base, exp) ==
    [fn |-> "hyper_op", pc |-> "entry", n |-> n, base |-> base, exp |-> exp,
     n_ |-> 0, exp_ |-> 0, out |-> 0, iters |-> 0]

\* lib.rs:130  fn A(m, n)
AFrame(m, n) ==
    [fn |-> "A", pc |-> "entry", m |-> m, n |-> n]

Top == stack[Len(stack)]

SetTop(f) == [stack EXCEPT ![Len(stack)] = f]

Running(fn, pc) ==
    /\ status = "running"
    /\ Len(stack) > 0
    /\ Top.fn = fn
    /\ Top.pc = pc

\* a return statement: the activation is dropped and its value handed to the caller
Return(v) ==
    /\ stack' = SubSeq(stack, 1, Len(stack) - 1)
    /\ ret' = v
    /\ status' = IF Len(stack) = 1 THEN "done" ELSE "running"
    /\ UNCHANGED <<panicAt, call, hist>>

\* a statement that neither calls nor returns
Step(f) ==
    /\ stack' = SetTop(f)
    /\ UNCHANGED <<ret, status, panicAt, call, hist>>

\* a call: the caller moves to the place it resumes at, the callee is pushed
Call(resume, callee) ==
    /\ stack' = Append(SetTop([Top EXCEPT !.pc = resume]), callee)
    /\ UNCHANGED <<ret, status, panicAt, call, hist>>

\* a BigUint subtraction with a negative result panics
Panic(fn) ==
    /\ status' = "panic"
    /\ panicAt' = fn
    /\ UNCHANGED <<stack, ret, call, hist>>

----------------------------------------------------------------------------
\* pow, lib.rs:43-71

\* lib.rs:44-57  the early returns, then out = 1
PowEntry ==
    /\ Running("pow", "entry")
    /\ IF PowReturnsBase(Top.b, Top.e)
       THEN Return(Top.b)
       ELSE IF PowReturnsOne(Top.b, Top.e)
            THEN Return(1)
            ELSE Step([Top EXCEPT !.out = 1, !.pc = "loop"])

\* lib.rs:61-69  one run of the do-while
PowLoop ==
    /\ Running("pow", "loop")
    /\ LET out1 == IF Bit0(Top.e) THEN Top.out * Top.b ELSE Top.out
           e1   == Shr1(Top.e)
           b1   == Top.b * Top.b
       IN Step([Top EXCEPT !.out = out1, !.e = e1, !.b = b1,
                           !.pc = IF PowLoopCond(e1) THEN "loop" ELSE "ret"])

\* lib.rs:70  n1
PowRet ==
    /\ Running("pow", "ret")
    /\ Return(PowResult(Top.out))

----------------------------------------------------------------------------
\* hyper_op, lib.rs:80-112

\* lib.rs:83-92  orders 0, 1 and 2
HyperArith ==
    /\ Running("hyper_op", "entry")
    /\ Top.n <= 2
    /\ Return(CASE Top.n = 0 -> HyperOrder0(Top.base, Top.exp)
                [] Top.n = 1 -> HyperOrder1(Top.base, Top.exp)
                [] Top.n = 2 -> HyperOrder2(Top.base, Top.exp))

\* lib.rs:93-96  order 3: return pow(base.clone(), exp.clone())
HyperCallPow ==
    /\ Running("hyper_op", "entry")
    /\ Top.n = 3
    /\ Call("retpow", PowFrame(Top.base, Top.exp))

\* lib.rs:95  pow has returned: its value is returned
HyperRetPow ==
    /\ Running("hyper_op", "retpow")
    /\ Return(ret)

\* lib.rs:97-99  order >= 4, exp == 0
HyperExpZero ==
    /\ Running("hyper_op", "entry")
    /\ Top.n > 3
    /\ HyperExpIsZero(Top.exp)
    /\ Return(1)

\* lib.rs:97-104  order >= 4, exp != 0: n - 1, the copy of exp, out = base
HyperInit ==
    /\ Running("hyper_op", "entry")
    /\ Top.n > 3
    /\ ~HyperExpIsZero(Top.exp)
    /\ IF Top.n < 1
       THEN Panic("hyper_op")
       ELSE Step([Top EXCEPT !.n_ = HyperOrderBelow(Top.n), !.exp_ = Top.exp,
                             !.out = HyperInitOut(Top.base), !.pc = "dec"])

\* lib.rs:105-108  exp -= 1 and the loop's condition
HyperDec ==
    /\ Running("hyper_op", "dec")
    /\ IF Top.exp_ < 1
       THEN Panic("hyper_op")
       ELSE Step([Top EXCEPT !.exp_ = Top.exp_ - 1,
                             !.pc = IF HyperLoopCond(Top.exp_ - 1) THEN "body" ELSE "ret"])

\* lib.rs:109  the loop body calls hyper_op(&n, base, &out)
HyperBody ==
    /\ Running("hyper_op", "body")
    /\ stack' = Append(SetTop([Top EXCEPT !.pc = "assign", !.iters = Top.iters + 1]),
                       HyperFrame(Top.n_, Top.base, Top.out))
    /\ UNCHANGED <<ret, status, panicAt, call, hist>>

\* lib.rs:109  out = the value the call returned, then back to the loop's head
HyperAssign ==
    /\ Running("hyper_op", "assign")
    /\ Step([Top EXCEPT !.out = ret, !.pc = "dec"])

\* lib.rs:111  out
HyperRet ==
    /\ Running("hyper_op", "ret")
    /\ Return(Top.out)

----------------------------------------------------------------------------
\* A, lib.rs:130-133

\* lib.rs:131-132  hyper_op(&m, &2, &(n + 3))
ACall ==
    /\ Running("A", "entry")
    /\ Call("sub", HyperFrame(Top.m, ABase, AExp(Top.n)))

\* lib.rs:132  ... - &n3
ASub ==
    /\ Running("A", "sub")
    /\ IF ret < AShift
       THEN Panic("A")
       ELSE Return(ret - AShift)

----------------------------------------------------------------------------
\* The caller.

Orders == 0 .. MaxOrder
Args == 0 .. MaxArg

\* the calls a caller makes first
Calls ==
    {[fn |-> "A", args |-> <<m, n>>] : m \in Orders, n \in Args}
    \cup {[fn |-> "hyper_op", args |-> <<n, b, e>>] : n \in Orders, b \in Args, e \in Args}
    \cup {[fn |-> "pow", args |-> <<b, e>>] : b \in Args, e \in Args}

FrameOf(c) ==
    CASE c.fn = "A" -> AFrame(c.args[1], c.args[2])
      [] c.fn = "hyper_op" -> HyperFrame(c.args[1], c.args[2], c.args[3])
      [] c.fn = "pow" -> PowFrame(c.args[1], c.args[2])

Start(c) ==
    /\ call' = c
    /\ stack' = <<FrameOf(c)>>
    /\ status' = "running"

Init ==
    /\ call \in Calls
    /\ stack = <<FrameOf(call)>>
    /\ ret = 0
    /\ status = "running"
    /\ panicAt = ""
    /\ hist = <<>>

\* After hyper_op(n, b, e) with n >= 4 returned r, the caller evaluates
\* hyper_op(n - 1, b, r), and after that hyper_op(n, b, e + 1).
Recheck ==
    /\ status = "done"
    /\ call.fn = "hyper_op"
    /\ hist' = Append(hist, [call |-> call, ret |-> ret])
    /\ \/ /\ Len(hist) = 0
          /\ call.args[1] > 3
          /\ Start([fn |-> "hyper_op", args |-> <<call.args[1] - 1, call.args[2], ret>>])
       \/ /\ Len(hist) = 1
          /\ Start([fn |-> "hyper_op",
                    args |-> <<hist[1].call.args[1], hist[1].call.args[2],
                               hist[1].call.args[3] + 1>>])
    /\ UNCHANGED <<ret, panicAt>>

Next ==
    \/ PowEntry
    \/ PowLoop
    \/ PowRet
    \/ HyperArith
    \/ HyperCallPow
    \/ HyperRetPow
    \/ HyperExpZero
    \/ HyperInit
    \/ HyperDec
    \/ HyperBody
    \/ HyperAssign
    \/ HyperRet
    \/ ACall
    \/ ASub
    \/ Recheck

Spec == Init /\ [][Next]_vars

----------------------------------------------------------------------------
\* The mathematics the properties are stated against.

RECURSIVE Exp(_, _)
\* b multiplied by itself e times
Exp(b, e) == IF e = 0 THEN 1 ELSE b * Exp(b, e - 1)

RECURSIVE Tower(_, _)
\* the right-associated power tower of e >= 1 copies of b
Tower(b, e) == IF e = 1 THEN b ELSE Exp(b, Tower(b, e - 1))

\* the towers small enough to write down (towers of 0 rest on the convention
\* for 0^0 and are left out)
SmallTower(b, e) == e >= 1 /\ b >= 1 /\ (b = 1 \/ e <= 2 \/ (b = 2 /\ e <= 4))

Ended == status # "running"

IsCall(fn) == call.fn = fn

\* the activations of hyper_op on the stack
HyperFrames == {i \in DOMAIN stack : stack[i].fn = "hyper_op"}

\* the outermost activation of hyper_op
HyperFirst == CHOOSE i \in HyperFrames : \A j \in HyperFrames : i <= j

\* the activations of hyper_op nested beneath the outermost one
HyperNested == Cardinality(HyperFrames) - 1

----------------------------------------------------------------------------
\* C1: A(3, n) returns 2^(n+3) - 3 for every n, A(4, 0) returns 13 and
\* A(4, 1) returns 65533.
C1_AckermannFromOrder3 ==
    (IsCall("A") /\ Ended) =>
        /\ call.args[1] = 3 =>
               (status = "done" /\ ret = Exp(2, call.args[2] + 3) - 3)
        /\ call.args = <<4, 0>> => (status = "done" /\ ret = 13)
        /\ call.args = <<4, 1>> => (status = "done" /\ ret = 65533)

\* C2: A(0, n) = n + 1, A(1, n) = n + 2 and A(2, n) = 2n + 3: for m <= 2 the
\* call returns, and returns the Ackermann-Peter value.
C2_AckermannBelowOrder3 ==
    (IsCall("A") /\ Ended /\ call.args[1] <= 2) =>
        /\ status = "done"
        /\ call.args[1] = 0 => ret = call.args[2] + 1
        /\ call.args[1] = 1 => ret = call.args[2] + 2
        /\ call.args[1] = 2 => ret = 2 * call.args[2] + 3

\* A(2, 2) has returned 7
C2_Witness ==
    IsCall("A") /\ status = "done" /\ call.args = <<2, 2>> /\ ret = 7

\* C3: the value hyper_op(m, 2, n+3) that A subtracts 3 from is >= 3, so A
\* never ends in an arithmetic underflow.
C3_ANeverUnderflows ==
    /\ Running("A", "sub") => ret >= 3
    /\ ~(status = "panic" /\ panicAt = "A")

\* C4: hyper_op(0, b, e) = e + 1 whatever b is, hyper_op(1, b, e) = b + e and
\* hyper_op(2, b, e) = b * e.
C4_HyperLowOrders ==
    (IsCall("hyper_op") /\ Ended /\ call.args[1] <= 2) =>
        /\ status = "done"
        /\ call.args[1] = 0 => ret = call.args[3] + 1
        /\ call.args[1] = 1 => ret = call.args[2] + call.args[3]
        /\ call.args[1] = 2 => ret = call.args[2] * call.args[3]

\* hyper_op(0, 3, 1) has returned 2: the base did not matter
C4_Witness ==
    IsCall("hyper_op") /\ status = "done" /\ call.args = <<0, 3, 1>> /\ ret = 2

\* C5: pow(b, e) returns b^e, and so does hyper_op(3, b, e) (0^0 is left to
\* the convention: stated for every other b and e).
C5_PowIsExact ==
    /\ (IsCall("pow") /\ Ended /\ call.args # <<0, 0>>) =>
           (status = "done" /\ ret = Exp(call.args[1], call.args[2]))
    /\ (IsCall("hyper_op") /\ Ended /\ call.args[1] = 3
            /\ <<call.args[2], call.args[3]>> # <<0, 0>>) =>
           (status = "done" /\ ret = Exp(call.args[2], call.args[3]))

\* C6: hyper_op(4, b, e) is the power tower of e copies of b, for small b and
\* e >= 1: hyper_op(4, 2, 2) = 4, hyper_op(4, 2, 3) = 16, hyper_op(4, 3, 2) = 27.
C6_Order4IsTetration ==
    (IsCall("hyper_op") /\ Ended /\ call.args[1] = 4
        /\ SmallTower(call.args[2], call.args[3])) =>
        (status = "done" /\ ret = Tower(call.args[2], call.args[3]))

\* C7: for order >= 4, hyper_op(order, b, 0) = 1 and
\* hyper_op(order, b, e + 1) = hyper_op(order - 1, b, hyper_op(order, b, e)).
\* The caller has evaluated hyper_op(order, b, e) = hist[1].ret, then
\* hyper_op(order - 1, b, hist[1].ret) = hist[2].ret, then hyper_op(order, b, e + 1).
C7_HyperRecurrence ==
    /\ (IsCall("hyper_op") /\ Ended /\ call.args[1] >= 4 /\ call.args[3] = 0) =>
           (status = "done" /\ ret = 1)
    /\ (Len(hist) = 2 /\ Ended) =>
           /\ status = "done"
           /\ hist[2].call.args =
                  <<call.args[1] - 1, call.args[2], hist[1].ret>>
           /\ hist[1].call.args =
                  <<call.args[1], call.args[2], call.args[3] - 1>>
           /\ ret = hist[2].ret

\* hyper_op(5, 2, 2), hyper_op(4, 2, that) and hyper_op(5, 2, 3) have returned
C7_Witness ==
    /\ Len(hist) = 2
    /\ status = "done"
    /\ call.args = <<5, 2, 3>>

\* C8: on pow's general path, when the do-while ends, out = base^exp.
C8_PowAccumulatorIsPower ==
    Running("pow", "ret") => Top.out = Exp(Top.base, Top.exp)

\* C9: hyper_op recurses on the order only: a nested call has the order
\* reduced by one, an activation of order <= 3 makes no nested hyper_op call,
\* the nested activations number at most the order of the outermost one (at
\* most m under A(m, n)), and the loop body of an activation runs exp - 1 times.
C9_RecursionOnOrderOnly ==
    /\ \A i \in HyperFrames :
           /\ (i + 1) \in HyperFrames =>
                  (stack[i].n >= 4 /\ stack[i + 1].n = stack[i].n - 1)
           /\ stack[i].n <= 3 => \A j \in HyperFrames : j <= i
           /\ stack[i].pc \in {"dec", "body", "assign", "ret"} =>
                  stack[i].iters <= stack[i].exp - 1
           /\ stack[i].pc = "ret" => stack[i].iters = stack[i].exp - 1
    /\ HyperFrames # {} =>
           /\ HyperNested <= stack[HyperFirst].n
           /\ IsCall("A") => HyperNested <= call.args[1]

\* under hyper_op(5, b, 3): two nested activations (orders 4 and 3), the outermost
\* one having run its loop body twice
C9_Witness ==
    /\ IsCall("hyper_op")
    /\ call.args[1] = 5 /\ call.args[3] = 3
    /\ HyperNested = 2
    /\ stack[1].iters = 2

\* C10: every subtraction of hyper_op has minuend >= subtrahend: n - 1 is
\* evaluated only at order >= 4, exp is decremented only while it is >= 1,
\* and hyper_op never ends in an underflow.
C10_HyperNeverUnderflows ==
    /\ \A i \in HyperFrames :
           /\ stack[i].pc \in {"dec", "body", "assign", "ret"} => stack[i].n >= 4
           /\ stack[i].pc = "dec" => stack[i].exp_ >= 1
    /\ ~(status = "panic" /\ panicAt = "hyper_op")

\* the last decrement of a loop that ran its body: exp is 1, about to become 0
C10_Witness ==
    /\ Running("hyper_op", "dec")
    /\ Top.n >= 4
    /\ Top.exp_ = 1
    /\ Top.iters >= 1

====
